---- MODULE Spec2Model ----
(***************************************************************************)
(* Model of scraper.py (247Sports recruiting class scraper): the timeline  *)
(* reconciler (parse_timeline as called twice by parse_profile), the       *)
(* discovery walker (click_load_more_until_complete), the batch scheduler  *)
(* (scrape_year, scrape_player_batch, scrape_player) and main.             *)
(***************************************************************************)
EXTENDS Integers, Sequences, FiniteSets, TLC

(***************************************************************************)
(* Configuration (scraper.py 19-39)                                        *)
(***************************************************************************)
\* YEARS: the configured list of seasons. The file ships [2019] and asks to
\* "change to scrape different years"; two seasons are modelled so that a
\* season has a successor.
YEARS == <<2019, 2020>>

MAX_CONCURRENT == 4

CSV_HEADERS ==
    <<"247 ID", "Player Name", "Position", "Height", "Weight", "High School",
      "City, ST", "Class", "247 Stars", "247 Rating", "247 National Rank",
      "247 Position", "247 Position Rank", "Composite Stars", "Composite Rating",
      "Composite National Rank", "Composite Position", "Composite Position Rank",
      "Signed Date", "Signed Team", "Draft Date", "Draft Team", "Recruiting Year",
      "Profile URL", "Scrape Date", "Data Source">>

YearSet == {YEARS[i] : i \in 1..Len(YEARS)}

HeaderSet == {CSV_HEADERS[i] : i \in 1..Len(CSV_HEADERS)}

NA == "NA"

(***************************************************************************)
(* Dates.  A date text found by the timeline regex (scraper.py 225, 249)   *)
(* is modelled by its structure: fmt says how it is written,               *)
(*   "mdY"   08/31/2019      (zero padded)                                 *)
(*   "mdY1"  8/31/2019       (not padded)                                  *)
(*   "bdY"   Aug 31, 2019    (the %b abbreviation)                         *)
(*   "BdY"   August 31, 2019 (the %B name)                                 *)
(*   "other" Sept 15, 2019   (a capitalised word the regex accepts and     *)
(*                            strptime does not know)                      *)
(* and m, d, y are the numbers written (m is the month the word stands     *)
(* for).  The regex checks digit counts only, so 09/31/2019 is a date text *)
(* although it is no calendar date.                                        *)
(***************************************************************************)
NoDate == [fmt |-> "none", m |-> 0, d |-> 0, y |-> 0]

NADate == [fmt |-> "NA", m |-> 0, d |-> 0, y |-> 0]

IsLeap(y) == (y % 4 = 0 /\ y % 100 # 0) \/ y % 400 = 0

DaysIn(m, y) ==
    IF m \in {4, 6, 9, 11} THEN 30
    ELSE IF m = 2 THEN (IF IsLeap(y) THEN 29 ELSE 28)
    ELSE 31

\* datetime.strptime(date_str, fmt) succeeds (no ValueError)
Strptime(t, fmt) ==
    /\ \/ fmt = "mdY" /\ t.fmt \in {"mdY", "mdY1"}
       \/ fmt = "bdY" /\ t.fmt = "bdY"
       \/ fmt = "BdY" /\ t.fmt = "BdY"
    /\ t.y \in 1..9999
    /\ t.m \in 1..12
    /\ t.d \in 1..DaysIn(t.m, t.y)

\* strftime("%m/%d/%Y")
Strftime(t) == [fmt |-> "mdY", m |-> t.m, d |-> t.d, y |-> t.y]

normalize_date(t) ==
    IF Strptime(t, "mdY") THEN Strftime(t)
    ELSE IF Strptime(t, "bdY") THEN Strftime(t)
    ELSE IF Strptime(t, "BdY") THEN Strftime(t)
    ELSE t

\* dt < datetime(recruiting_year, 9, 1)
BeforeCutoff(t, recruiting_year) ==
    \/ t.y < recruiting_year
    \/ t.y = recruiting_year /\ t.m < 9

is_date_valid_for_class(t, recruiting_year) ==
    IF t = NADate THEN FALSE
    ELSE IF Strptime(t, "mdY") THEN BeforeCutoff(t, recruiting_year)
    ELSE TRUE

Pad2(n) == IF n < 10 THEN "0" \o ToString(n) ELSE ToString(n)

Pad4(n) ==
    IF n < 10 THEN "000" \o ToString(n)
    ELSE IF n < 100 THEN "00" \o ToString(n)
    ELSE IF n < 1000 THEN "0" \o ToString(n)
    ELSE ToString(n)

MonthAbbr ==
    <<"Jan", "Feb", "Mar", "Apr", "May", "Jun",
      "Jul", "Aug", "Sep", "Oct", "Nov", "Dec">>

MonthName ==
    <<"January", "February", "March", "April", "May", "June", "July",
      "August", "September", "October", "November", "December">>

\* a month word strptime rejects: "Sept" for September, else the abbreviation
\* with a trailing letter
MonthOther == [m \in 1..12 |-> IF m = 9 THEN "Sept" ELSE MonthAbbr[m] \o "x"]

\* The string a date structure stands for; what data['Signed Date'] holds.
DateStr(t) ==
    IF t = NADate THEN NA
    ELSE IF t.fmt = "mdY" THEN Pad2(t.m) \o "/" \o Pad2(t.d) \o "/" \o Pad4(t.y)
    ELSE IF t.fmt = "mdY1" THEN ToString(t.m) \o "/" \o ToString(t.d) \o "/" \o Pad4(t.y)
    ELSE IF t.fmt = "bdY" THEN MonthAbbr[t.m] \o " " \o ToString(t.d) \o ", " \o Pad4(t.y)
    ELSE IF t.fmt = "BdY" THEN MonthName[t.m] \o " " \o ToString(t.d) \o ", " \o Pad4(t.y)
    ELSE MonthOther[t.m] \o " " \o ToString(t.d) \o ", " \o Pad4(t.y)

(***************************************************************************)
(* Timeline fragments.  One fragment is the text of one timeline item      *)
(* (scraper.py 217-218), modelled by what the code reads from it:          *)
(*   draft  'draft' occurs in the lower-cased text (224)                   *)
(*   words  which keyword families occur in it (238-246)                   *)
(*   date   the first match of the date regex (225, 249), or NoDate        *)
(*   team   group 1 of the destination regex (268), or NoMatch             *)
(*   dteam  group 1 of the draft team regex (231), or NoMatch              *)
(***************************************************************************)
NoMatch == ""

\* the year written in the date texts: the season the file ships with (19)
DateYear == 2019

DateTexts ==
    { [fmt |-> "bdY",   m |-> 8, d |-> 31, y |-> DateYear],
      [fmt |-> "BdY",   m |-> 8, d |-> 1,  y |-> DateYear],
      [fmt |-> "mdY1",  m |-> 9, d |-> 1,  y |-> DateYear],
      [fmt |-> "other", m |-> 9, d |-> 15, y |-> DateYear] }

Teams == {"Arkansas", "Alabama"}

DraftTeams == {"Dallas Cowboys", "Green Bay Packers"}

KeywordSets ==
    { {}, {"commitment"}, {"signed"}, {"enrolled"}, {"commitment", "signed"} }

Fragments ==
    { f \in [ draft : BOOLEAN, words : KeywordSets,
              date : DateTexts \cup {NoDate},
              team : Teams \cup {NoMatch},
              dteam : DraftTeams \cup {NoMatch} ] :
        \* the fields the code never reads for this fragment are left out
        /\ (~f.draft => f.dteam = NoMatch)
        /\ (f.words \cap {"commitment", "signed"} = {} => f.team = NoMatch) }

\* the draft-related fragments of the timeline pages: draft items with a
\* date and a team, with one of the two only, and a commitment that mentions
\* the draft
DraftPageFragments ==
    { f \in Fragments :
        /\ f.draft
        /\ \/ /\ f.words = {}
              /\ <<f.date, f.dteam>> \in
                    { <<[fmt |-> "mdY1", m |-> 9, d |-> 1, y |-> DateYear], "Dallas Cowboys">>,
                      <<[fmt |-> "BdY", m |-> 8, d |-> 1, y |-> DateYear], "Green Bay Packers">>,
                      <<[fmt |-> "mdY1", m |-> 9, d |-> 1, y |-> DateYear], NoMatch>>,
                      <<NoDate, "Green Bay Packers">> }
           \/ /\ f.words = {"commitment"}
              /\ f.date = [fmt |-> "BdY", m |-> 8, d |-> 1, y |-> DateYear]
              /\ f.team = "Arkansas"
              /\ f.dteam = NoMatch }

\* the fragments the timeline pages of SpecTimeline are made of: every kind
\* and every date text with one destination, and the draft-related ones
PageFragments ==
    { f \in Fragments : ~f.draft /\ f.team \in {"Arkansas", NoMatch}
                                /\ f.words # {"commitment", "signed"} }
    \cup DraftPageFragments

clean_text(text) == IF text = "" THEN NA ELSE text

\* the if / elif chain of scraper.py 237-246
item_priority(f) ==
    IF "commitment" \in f.words THEN 100
    ELSE IF "signed" \in f.words THEN 1
    ELSE IF "enrolled" \in f.words THEN 0
    ELSE 0

\* the event kind the chain classifies the fragment as
Kind(f) ==
    IF "commitment" \in f.words THEN "commitment"
    ELSE IF "signed" \in f.words THEN "signing"
    ELSE IF "enrolled" \in f.words THEN "enrollment"
    ELSE "none"

\* found_date (250)
found_date(f) == IF f.date # NoDate THEN normalize_date(f.date) ELSE NADate

\* the date check of line 255
PassesGate(f, year) ==
    found_date(f) # NADate /\ is_date_valid_for_class(found_date(f), year)

\* mutant of ShouldOverwrite: any different priority overwrites
ShouldOverwrite_NotEqual(new_priority, current_priority) ==
    new_priority # current_priority

\* mutant of ShouldOverwrite: the last fragment wins
ShouldOverwrite_Always(new_priority, current_priority) == TRUE

\* mutant of ShouldOverwrite: an equal priority overwrites too
ShouldOverwrite_AtLeast(new_priority, current_priority) ==
    new_priority >= current_priority

\* "Only overwrite if new priority is strictly greater" (263)
ShouldOverwrite(new_priority, current_priority) == new_priority > current_priority

\* mutant of DraftLogic: a later draft item replaces the draft record
DraftLogic_Overwrite(data, f) ==
    IF ~f.draft THEN data
    ELSE LET d1 == IF f.date # NoDate
                   THEN [data EXCEPT !["Draft Date"] = DateStr(normalize_date(f.date))]
                   ELSE data
         IN  IF f.dteam # NoMatch
             THEN [d1 EXCEPT !["Draft Team"] = clean_text(f.dteam)]
             ELSE d1

\* --- DRAFT LOGIC --- (224-234)
DraftLogic(data, f) ==
    IF ~f.draft THEN data
    ELSE LET d1 == IF f.date # NoDate /\ data["Draft Date"] = NA
                   THEN [data EXCEPT !["Draft Date"] = DateStr(normalize_date(f.date))]
                   ELSE data
         IN  IF f.dteam # NoMatch /\ d1["Draft Team"] = NA
             THEN [d1 EXCEPT !["Draft Team"] = clean_text(f.dteam)]
             ELSE d1

\* --- COMMITMENT DATE LOGIC --- (237-278)
CommitLogic(data, f, year) ==
    IF item_priority(f) > 0 /\ PassesGate(f, year)
       /\ ShouldOverwrite(item_priority(f), data["_date_priority"])
    THEN LET d1 == [data EXCEPT !["Signed Date"] = DateStr(found_date(f)),
                                !["_date_priority"] = item_priority(f)]
         IN  IF f.team # NoMatch
             THEN [d1 EXCEPT !["Signed Team"] = clean_text(f.team)]
             ELSE d1
    ELSE data

\* the body of "for item in items" (217-278)
ParseItem(data, f, year) == CommitLogic(DraftLogic(data, f), f, year)

\* mutant of NewData: the Height field gets no default
NewData_NoDefault(url, year) ==
    [h \in (HeaderSet \ {"Height"}) \cup {"_date_priority"} |->
        IF h = "Profile URL" THEN url
        ELSE IF h = "Recruiting Year" THEN ToString(year)
        ELSE IF h = "Scrape Date" THEN "now"
        ELSE IF h = "Data Source" THEN "247Sports Composite"
        ELSE IF h = "_date_priority" THEN -1
        ELSE NA]

\* data as parse_profile creates it (298-303)
NewData(url, year) ==
    [h \in HeaderSet \cup {"_date_priority"} |->
        IF h = "Profile URL" THEN url
        ELSE IF h = "Recruiting Year" THEN ToString(year)
        ELSE IF h = "Scrape Date" THEN "now"
        ELSE IF h = "Data Source" THEN "247Sports Composite"
        ELSE IF h = "_date_priority" THEN -1
        ELSE NA]

(***************************************************************************)
(* State                                                                   *)
(***************************************************************************)
VARIABLES
    \* --- one profile's timeline reconciliation (parse_profile 399-438) ---
    year,               \* the season the profile is scraped for
    data,               \* the record parse_profile builds
    pc,                 \* where parse_profile / parse_timeline stands
    call,               \* 1: the abbreviated pass (401), 2: the full pass (420)
    page_count,         \* parse_timeline's page_count
    is_full_timeline,   \* parse_timeline's is_full_timeline of the page read
    pages_read,         \* history: pages read in the current call
    seen,               \* history: kinds of the processed fragments whose
                        \* date passed the gate
    \* --- the full timeline repeating the abbreviated one ---
    frags,              \* the items both views hold, in order
    idx,                \* the next item of the for loop (217)
    rp_pass,            \* 1: first parse_timeline call, 2: second, 3: returned
    snap,               \* history: data when the first call returned
    \* --- discovery (click_load_more_until_complete) ---
    TEST_MODE,          \* the TEST_MODE environment flag (21)
    site,               \* environment: the ranking page of each season
    d_pc,               \* where click_load_more_until_complete stands
    d_year,             \* its year argument
    context_open,       \* its browsing context is open (97, 107, 130, 173)
    valid_selector,     \* index of the selector that matched, 0 for None
    click_count,        \* click_count (133)
    shown,              \* list items loaded on the ranking page
    player_urls,        \* the list it returned (scrape_year's player_urls)
    d_log,              \* history: how each finished discovery ended
    \* --- main, scrape_year, scrape_player_batch, scrape_player ---
    main_pc,            \* where main stands
    year_idx,           \* index into YEARS of main's for loop (525)
    all_players,        \* main's all_players
    exit_code,          \* the process exit status, -1 while running
    sy_pc,              \* where scrape_year stands
    sy_i,               \* i of scrape_year's for loop (497)
    all_data,           \* scrape_year's all_data
    chunks,             \* history: the batches of the current season
    batch_ctx,          \* the batch's browsing context is open (450, 455)
    tasks,              \* the scrape_player tasks of the current batch
    results,            \* what asyncio.gather collects, by task position
    year_counts,        \* history: len(year_data) of each finished season
    raced               \* history: a task of the chunk finished before an earlier one

tlVars == <<year, data, pc, call, page_count, is_full_timeline, pages_read, seen>>

rpVars == <<frags, idx, rp_pass, snap>>

discVars == <<TEST_MODE, site, d_pc, d_year, context_open, valid_selector,
              click_count, shown, player_urls, d_log>>

runVars == <<main_pc, year_idx, all_players, exit_code, sy_pc, sy_i, all_data,
             chunks, batch_ctx, tasks, results, year_counts, raced>>

vars == <<tlVars, rpVars, discVars, runVars>>

\* what the timeline actions leave alone
notTl == <<rpVars, discVars, runVars>>

\* what the replay actions leave alone (they work on year and data)
notRp == <<pc, call, page_count, is_full_timeline, pages_read, seen, discVars,
           runVars>>

\* what the discovery actions leave alone
notDisc == <<tlVars, rpVars, runVars>>

\* what the actions of the run leave alone, discovery apart
notRun == <<tlVars, rpVars>>

\* the parts of the state a specification of one part leaves idle
IdleReplay ==
    /\ frags = <<>>
    /\ idx = 0
    /\ rp_pass = 0
    /\ snap = <<>>

IdleDiscovery ==
    /\ TEST_MODE = FALSE
    /\ site = <<>>
    /\ d_pc = "idle"
    /\ d_year = 0
    /\ context_open = FALSE
    /\ valid_selector = 0
    /\ click_count = 0
    /\ shown = 0
    /\ player_urls = <<>>
    /\ d_log = <<>>

IdleRun ==
    /\ main_pc = "idle"
    /\ year_idx = 0
    /\ all_players = <<>>
    /\ exit_code = -1
    /\ sy_pc = "idle"
    /\ sy_i = 0
    /\ all_data = <<>>
    /\ chunks = <<>>
    /\ batch_ctx = FALSE
    /\ tasks = <<>>
    /\ results = <<>>
    /\ year_counts = <<>>
    /\ raced = FALSE

IdleTimeline ==
    /\ pc = "idle"
    /\ call = 0
    /\ page_count = 0
    /\ is_full_timeline = FALSE
    /\ pages_read = 0
    /\ seen = {}

\* max_pages (200)
max_pages == 10

\* the text of the commit banner's first span / a (428-432)
BannerTexts == Teams \cup {"Committed"}

\* team_text.lower() not in ['committed', 'commitment', 'signed'] (433)
BannerIsTeam(team_text) == team_text \notin {"Committed", "Commitment", "Signed"}

(***************************************************************************)
(* parse_timeline (192-295), one action per step                           *)
(***************************************************************************)
\* parse_timeline returns to parse_profile: after the first call to the
\* "see all" section (404), after the second to the fallback (427)
ReturnPc(c) == IF c = 1 THEN "see_all" ELSE "fallback"

\* html = await page.content(); the items are selected (203-215)
TlReadPage ==
    /\ pc = "tl_read"
    /\ is_full_timeline' \in BOOLEAN
    /\ pages_read' = pages_read + 1
    /\ pc' = "tl_items"
    /\ UNCHANGED <<year, data, call, page_count, seen>>
    /\ UNCHANGED notTl

\* the body of "for item in items" on fragment f (217-278)
TlItemOn(f) ==
    /\ pc = "tl_items"
    /\ data' = ParseItem(data, f, year)
    /\ seen' = IF Kind(f) # "none" /\ PassesGate(f, year)
               THEN seen \cup {Kind(f)} ELSE seen
    /\ UNCHANGED <<year, pc, call, page_count, is_full_timeline, pages_read>>
    /\ UNCHANGED notTl

\* one iteration of "for item in items": a page holds any number of items
TlItem == \E f \in PageFragments : TlItemOn(f)

\* mutant of MorePages: the loop test lets one more page through
MorePages_OneMore(count) == count <= max_pages

\* while page_count < max_pages (202)
MorePages(count) == count < max_pages

\* the items are exhausted: --- PAGINATION --- (281-292) and the loop
\* test (202)
TlNext ==
    /\ pc = "tl_items"
    /\ \E visible \in BOOLEAN :
          IF is_full_timeline /\ visible
          THEN \* next_button.click() succeeded
               /\ page_count' = page_count + 1
               /\ pc' = IF MorePages(page_count + 1) THEN "tl_read"
                        ELSE ReturnPc(call)
          ELSE \* break
               /\ page_count' = page_count
               /\ pc' = ReturnPc(call)
    /\ UNCHANGED <<year, data, call, is_full_timeline, pages_read, seen>>
    /\ UNCHANGED notTl

\* an exception anywhere in the try block (page.content(), an item, the
\* click) takes parse_timeline to its except clause (294)
TlRaise ==
    /\ pc \in {"tl_read", "tl_items"}
    /\ pc' = "tl_except"
    /\ UNCHANGED <<year, data, call, page_count, is_full_timeline, pages_read, seen>>
    /\ UNCHANGED notTl

\* mutant of TimelineOnError: the timeline fields are given up
TimelineOnError_Reset(d) ==
    [d EXCEPT !["Signed Date"] = NA, !["Signed Team"] = NA, !["Draft Date"] = NA,
              !["Draft Team"] = NA, !["_date_priority"] = -1]

\* except Exception as e: print(...) (294-295): data is left as it is
TimelineOnError(d) == d

\* the except clause (294-295): the error is printed and parse_timeline
\* returns to parse_profile
TlExcept ==
    /\ pc = "tl_except"
    /\ data' = TimelineOnError(data)
    /\ pc' = ReturnPc(call)
    /\ UNCHANGED <<year, call, page_count, is_full_timeline, pages_read, seen>>
    /\ UNCHANGED notTl

(***************************************************************************)
(* parse_profile after the first parse_timeline call (404-442)             *)
(***************************************************************************)
\* the "TimelineEvents" link and the navigation to the full timeline (410-424)
SeeAll ==
    /\ pc = "see_all"
    /\ \E link \in BOOLEAN, goto_ok \in BOOLEAN :
          IF link /\ goto_ok
          THEN /\ call' = 2
               /\ page_count' = 0
               /\ pages_read' = 0
               /\ pc' = "tl_read"
          ELSE /\ pc' = "fallback"
               /\ UNCHANGED <<call, page_count, pages_read>>
    /\ UNCHANGED <<year, data, is_full_timeline, seen>>
    /\ UNCHANGED notTl

\* an exception in 404-415 outside the inner try (the scroll, the locator):
\* caught at 440, data is returned as it is
SeeAllRaise ==
    /\ pc = "see_all"
    /\ pc' = "done"
    /\ UNCHANGED <<year, data, call, page_count, is_full_timeline, pages_read, seen>>
    /\ UNCHANGED notTl

\* Fallback for Signed Team (427-434); banner is the text of the commit
\* banner's first span or a, NoMatch without one
FallbackTeam(d, banner) ==
    IF d["Signed Team"] = NA /\ banner # NoMatch /\ BannerIsTeam(clean_text(banner))
    THEN [d EXCEPT !["Signed Team"] = clean_text(banner)]
    ELSE d

\* Fallback for Signed Team (427-434), then return data (438)
Fallback ==
    /\ pc = "fallback"
    /\ \E banner \in BannerTexts \cup {NoMatch} : data' = FallbackTeam(data, banner)
    /\ pc' = "done"
    /\ UNCHANGED <<year, call, page_count, is_full_timeline, pages_read, seen>>
    /\ UNCHANGED notTl

\* parse_profile has created data (298-303) and reached the timeline (399)
InitTimeline ==
    /\ year \in YearSet
    /\ data = NewData("https://247sports.com/player/p-1/", year)
    /\ pc = "tl_read"
    /\ call = 1
    /\ page_count = 0
    /\ is_full_timeline = FALSE
    /\ pages_read = 0
    /\ seen = {}
    /\ IdleReplay
    /\ IdleDiscovery
    /\ IdleRun

NextTimeline ==
    \/ TlReadPage
    \/ TlItem
    \/ TlNext
    \/ TlRaise
    \/ TlExcept
    \/ SeeAll
    \/ SeeAllRaise
    \/ Fallback

SpecTimeline == InitTimeline /\ [][NextTimeline]_vars

(***************************************************************************)
(* The full timeline repeating the abbreviated one: parse_profile calls    *)
(* parse_timeline on the main profile (401) and again on the full timeline *)
(* page (420), which lists the same items in the same order.               *)
(***************************************************************************)
\* items in the repeated timeline
MaxSeq == 2

ReplayFragments ==
    { f \in Fragments :
        /\ f.words \in { {}, {"commitment"}, {"signed"} }
        /\ f.date \in { NoDate,
                        [fmt |-> "bdY", m |-> 8, d |-> 31, y |-> DateYear],
                        [fmt |-> "BdY", m |-> 8, d |-> 1,  y |-> DateYear] }
        /\ f.team \in {NoMatch} \cup (IF f.words = {"commitment"} THEN {"Arkansas"} ELSE {})
        /\ f.dteam \in {NoMatch, "Dallas Cowboys"} }

SeqsUpTo(S, n) == UNION { [1..k -> S] : k \in 1..n }

\* the for loop over the items of one page, as a fold (217-278)
RECURSIVE ParseItems(_, _, _)
ParseItems(d, items, y) ==
    IF items = <<>> THEN d
    ELSE ParseItems(ParseItem(d, Head(items), y), Tail(items), y)

InitReplay ==
    /\ year = YEARS[1]
    /\ data = NewData("https://247sports.com/player/p-1/", year)
    /\ frags \in SeqsUpTo(ReplayFragments, MaxSeq)
    /\ idx = 1
    /\ rp_pass = 1
    /\ snap = data
    /\ IdleTimeline
    /\ IdleDiscovery
    /\ IdleRun

\* one iteration of "for item in items" (217-278)
ReplayItem ==
    /\ rp_pass \in {1, 2}
    /\ idx <= Len(frags)
    /\ data' = ParseItem(data, frags[idx], year)
    /\ idx' = idx + 1
    /\ UNCHANGED <<year, frags, rp_pass, snap>>
    /\ UNCHANGED notRp

\* the first call returns, the "see all" link is followed (410-420) and the
\* second call reads the same items
ReplaySecondCall ==
    /\ rp_pass = 1
    /\ idx > Len(frags)
    /\ snap' = data
    /\ rp_pass' = 2
    /\ idx' = 1
    /\ UNCHANGED <<year, data, frags>>
    /\ UNCHANGED notRp

\* the second call returns
ReplayReturn ==
    /\ rp_pass = 2
    /\ idx > Len(frags)
    /\ rp_pass' = 3
    /\ UNCHANGED <<year, data, frags, idx, snap>>
    /\ UNCHANGED notRp

NextReplay ==
    \/ ReplayItem
    \/ ReplaySecondCall
    \/ ReplayReturn

SpecReplay == InitReplay /\ [][NextReplay]_vars

(***************************************************************************)
(* Discovery: click_load_more_until_complete (94-174)                      *)
(*                                                                         *)
(* The ranking page of a season is the environment.  It is described by    *)
(*   total      the list items the season has                              *)
(*   page_size  the items the page shows at first and adds per click       *)
(*   shape      the anchors a list item holds                              *)
(*   stalls     the load-more control stays visible when all is loaded     *)
(* An anchor is [named, href]: named says it matches the name-link / recruit*)
(* locator of line 154; href is [k, id] with k "rel" for "/player/p-id/",  *)
(* "abs" for "https://247sports.com/player/p-id/", "other" for a link that *)
(* does not contain "/player/" and "none" for a missing attribute.         *)
(***************************************************************************)
Href(k, id) == [k |-> k, id |-> id]

Anchor(named, k, id) == [named |-> named, href |-> Href(k, id)]

Shapes == {"plain", "twice", "again", "mixed", "unnamed"}

\* the anchors of list item k
ItemAnchors(shape, k) ==
    IF shape = "plain" THEN <<Anchor(TRUE, "rel", k)>>
    ELSE IF shape = "twice"
        THEN <<Anchor(TRUE, "rel", k), Anchor(TRUE, "abs", k)>>
    ELSE IF shape = "again"      \* every third item links an earlier profile
        THEN <<Anchor(TRUE, "abs", IF k % 3 = 0 THEN k - 2 ELSE k)>>
    ELSE IF shape = "mixed"
        THEN <<Anchor(TRUE, "none", k), Anchor(TRUE, "other", k),
               Anchor(TRUE, "rel", k)>>
    ELSE <<Anchor(FALSE, "other", k), Anchor(FALSE, "rel", k)>>

\* the anchors of the first n list items, in page order
PageAnchors(shape, n) ==
    LET c == Len(ItemAnchors(shape, 1))
    IN  [j \in 1..(n * c) |-> ItemAnchors(shape, ((j - 1) \div c) + 1)[((j - 1) % c) + 1]]

IsNamed(a) == a.named

\* '/player/' in href, for a present href
HasPlayer(h) == h.k \in {"rel", "abs"}

IsPlayerAnchor(a) == a.href.k # "none" /\ HasPlayer(a.href)

\* the two locators of lines 154-157
PlayerLinks(anchors) ==
    IF SelectSeq(anchors, IsNamed) # <<>> THEN SelectSeq(anchors, IsNamed)
    ELSE SelectSeq(anchors, IsPlayerAnchor)

\* if href.startswith('/'): href = f"https://247sports.com{href}" (163)
Normalize(h) ==
    IF h.k = "rel" THEN "https://247sports.com" \o "/player/p-" \o ToString(h.id) \o "/"
    ELSE IF h.k = "abs" THEN "https://247sports.com/player/p-" \o ToString(h.id) \o "/"
    ELSE "/college/c-" \o ToString(h.id) \o "/"

\* the loop of lines 159-164: the hrefs that are present and contain
\* '/player/', normalised, in order
CollectUrls(links) ==
    LET kept == SelectSeq(links, IsPlayerAnchor)
    IN  [j \in 1..Len(kept) |-> Normalize(kept[j].href)]

\* mutant of DictFromKeys: the list is not deduplicated
DictFromKeys_Keep(q) == q

\* list(dict.fromkeys(player_urls)) (166): the first occurrence of each key,
\* in insertion order
DictFromKeys(q) ==
    LET IsFirst(j) == \A k \in 1..(j - 1) : q[k] # q[j]
        firsts == SelectSeq([j \in 1..Len(q) |-> j], IsFirst)
    IN  [j \in 1..Len(firsts) |-> q[firsts[j]]]

\* the limit of lines 169-170
TestLimit == 50

\* if TEST_MODE and len(player_urls) > 50: player_urls = player_urls[:50]
Truncate(urls, test_mode) ==
    IF test_mode /\ Len(urls) > TestLimit THEN SubSeq(urls, 1, TestLimit) ELSE urls

\* lines 153-170
ExtractUrls(anchors, test_mode) ==
    Truncate(DictFromKeys(CollectUrls(PlayerLinks(anchors))), test_mode)

\* mutant of max_clicks: the constrained-run mode has the same ceiling
max_clicks_NoTestCap(test_mode) == 500

\* max_clicks = 500 if not TEST_MODE else 1 (134)
max_clicks(test_mode) == IF test_mode THEN 1 ELSE 500

Min(a, b) == IF a < b THEN a ELSE b

\* the selectors of lines 110-114
NumSelectors == 3

\* scrape_year awaits click_load_more_until_complete(browser, y): the
\* context and the page are created (97-98)
DiscCall(y) ==
    /\ d_pc' = "goto"
    /\ d_year' = y
    /\ context_open' = TRUE
    /\ valid_selector' = 0
    /\ click_count' = 0
    /\ shown' = 0
    /\ UNCHANGED <<TEST_MODE, site, player_urls, d_log>>

\* mutant of ContextAfterReturn: the return without a list marker leaves
\* the context open
ContextAfterReturn_Leak(how) == how = "no_marker"

\* await context.close() before each return (107, 130, 173): is the context
\* still open
ContextAfterReturn(how) == FALSE

\* it returns urls to scrape_year, having closed its context
DiscReturn(urls, how) ==
    /\ d_pc' = "returned"
    /\ click_count' = 0
    /\ context_open' = ContextAfterReturn(how)
    /\ player_urls' = urls
    /\ d_log' = Append(d_log, [year |-> d_year, how |-> how, n |-> Len(urls)])

\* page.goto of the ranking page (102-108)
DiscGoto ==
    /\ d_pc = "goto"
    /\ \E ok \in BOOLEAN :
          IF ok
          THEN /\ d_pc' = "select"
               /\ shown' = Min(site[d_year].total, site[d_year].page_size)
               /\ UNCHANGED <<context_open, click_count, player_urls, d_log>>
          ELSE /\ DiscReturn(<<>>, "load_failed")
               /\ UNCHANGED shown
    /\ UNCHANGED <<TEST_MODE, site, d_year, valid_selector>>
    /\ UNCHANGED notDisc

\* the selector loop (116-131): the first selector that counts an item, or
\* none (no item on the page, or items no known selector matches)
DiscSelect ==
    /\ d_pc = "select"
    /\ \E sel \in 0..NumSelectors :
          /\ (shown = 0 => sel = 0)
          /\ IF sel # 0
             THEN /\ valid_selector' = sel
                  /\ d_pc' = "loop"
                  /\ UNCHANGED <<context_open, click_count, player_urls, d_log>>
             ELSE /\ valid_selector' = 0
                  /\ DiscReturn(<<>>, "no_marker")
    /\ UNCHANGED <<TEST_MODE, site, d_year, shown>>
    /\ UNCHANGED notDisc

\* the load-more control is there and visible (141)
LoadMoreVisible(s, n) == n < s.total \/ s.stalls

\* one iteration of the click loop (136-151)
DiscClick ==
    /\ d_pc = "loop"
    /\ click_count < max_clicks(TEST_MODE)
    /\ LoadMoreVisible(site[d_year], shown)
    /\ \E raised \in BOOLEAN :
          IF raised
          THEN \* except Exception: break
               /\ d_pc' = "extract"
               /\ UNCHANGED <<click_count, shown>>
          ELSE /\ click_count' = click_count + 1
               /\ shown' = Min(site[d_year].total, shown + site[d_year].page_size)
               /\ UNCHANGED d_pc
    /\ UNCHANGED <<TEST_MODE, site, d_year, context_open, valid_selector,
                   player_urls, d_log>>
    /\ UNCHANGED notDisc

\* the loop ends: the control is hidden (146-148) or max_clicks is reached
DiscLoopEnd ==
    /\ d_pc = "loop"
    /\ \/ click_count >= max_clicks(TEST_MODE)
       \/ ~LoadMoreVisible(site[d_year], shown)
    /\ d_pc' = "extract"
    /\ UNCHANGED <<TEST_MODE, site, d_year, context_open, valid_selector,
                   click_count, shown, player_urls, d_log>>
    /\ UNCHANGED notDisc

\* the profile URLs are extracted and returned (153-174)
DiscExtract ==
    /\ d_pc = "extract"
    /\ DiscReturn(ExtractUrls(PageAnchors(site[d_year].shape, shown), TEST_MODE),
                  "ok")
    /\ UNCHANGED <<TEST_MODE, site, d_year, valid_selector, shown>>
    /\ UNCHANGED notDisc

\* largest ranking page of SpecDiscovery, and its page sizes
BigTotal == 52

Listings(totals, sizes, shapes, stall) ==
    [total : totals, page_size : sizes, shape : shapes, stalls : stall]

\* scrape_year(browser, YEARS[1]) has just called the walker
InitDiscovery ==
    /\ TEST_MODE \in BOOLEAN
    /\ site \in [YearSet -> Listings({0, 3, BigTotal}, {2, BigTotal \div 2},
                                     Shapes, BOOLEAN)]
    /\ site[YEARS[2]] = site[YEARS[1]]
    /\ d_pc = "goto"
    /\ d_year = YEARS[1]
    /\ context_open = TRUE
    /\ valid_selector = 0
    /\ click_count = 0
    /\ shown = 0
    /\ player_urls = <<>>
    /\ d_log = <<>>
    /\ IdleTimeline
    /\ year = 0
    /\ data = <<>>
    /\ IdleReplay
    /\ IdleRun

NextDiscovery ==
    \/ DiscGoto
    \/ DiscSelect
    \/ DiscClick
    \/ DiscLoopEnd
    \/ DiscExtract

SpecDiscovery == InitDiscovery /\ [][NextDiscovery]_vars

(***************************************************************************)
(* The profile pages the batch scheduler scrapes.  The markup of a profile *)
(* is fixed by its locator; what varies from run to run is which           *)
(* navigations fail.                                                       *)
(***************************************************************************)
Url(id) == "https://247sports.com/player/p-" \o ToString(id) \o "/"

\* extract_player_id (45-47): the digits before the last slash
extract_player_id(url) ==
    IF \E id \in 1..(2 * BigTotal) : Url(id) = url
    THEN ToString(CHOOSE id \in 1..(2 * BigTotal) : Url(id) = url)
    ELSE NA

SignedItem ==
    [draft |-> FALSE, words |-> {"signed"},
     date |-> [fmt |-> "bdY", m |-> 8, d |-> 31, y |-> DateYear],
     team |-> "Arkansas", dteam |-> NoMatch]

CommitItem ==
    [draft |-> FALSE, words |-> {"commitment"},
     date |-> [fmt |-> "BdY", m |-> 8, d |-> 1, y |-> DateYear],
     team |-> NoMatch, dteam |-> NoMatch]

DraftItem ==
    [draft |-> TRUE, words |-> {},
     date |-> [fmt |-> "mdY1", m |-> 4, d |-> 28, y |-> DateYear + 3],
     team |-> NoMatch, dteam |-> "Dallas Cowboys"]

\* the profile a locator leads to: every other profile is a full page with a
\* two-page full timeline, the others are pages the extractor finds nothing
\* on but a commit banner
Markup(url) ==
    IF extract_player_id(url) \in {ToString(2 * j - 1) : j \in 1..BigTotal}
    THEN [fields |-> [h \in {"Player Name", "Position", "Composite Stars"} |->
                        IF h = "Player Name" THEN "Player " \o extract_player_id(url)
                        ELSE IF h = "Position" THEN "QB" ELSE "4"],
          abbrev |-> <<SignedItem>>,
          see_all |-> TRUE,
          full |-> << <<SignedItem>>, <<CommitItem, DraftItem>> >>,
          banner |-> NoMatch]
    ELSE [fields |-> [h \in {} |-> NA],
          abbrev |-> <<>>,
          see_all |-> FALSE,
          full |-> <<>>,
          banner |-> "Alabama"]

\* header info and rankings (315-397): the fields the markup yields, the id
\* from the locator, and Class forced to the season (343)
ExtractFields(d, url, y, markup) ==
    [h \in DOMAIN d |->
        IF h = "247 ID" THEN extract_player_id(url)
        ELSE IF h = "Class" THEN ToString(y)
        ELSE IF h \in DOMAIN markup.fields THEN markup.fields[h]
        ELSE d[h]]

\* parse_timeline on a full timeline of the given pages (202-292): page after
\* page while a next control is there, max_pages at most
RECURSIVE ParsePages(_, _, _, _)
ParsePages(d, pages, count, y) ==
    IF pages = <<>> \/ count >= max_pages THEN d
    ELSE ParsePages(ParseItems(d, Head(pages), y), Tail(pages), count + 1, y)

\* the try block of parse_profile after a successful goto (309-438); late
\* says an exception ends it in the "see all" section (404-415)
ParseProfileBody(d, url, y, markup, late) ==
    LET d1 == ExtractFields(d, url, y, markup)
        d2 == ParseItems(d1, markup.abbrev, y)
        d3 == IF markup.see_all THEN ParsePages(d2, markup.full, 0, y) ELSE d2
    IN  IF late THEN d2 ELSE FallbackTeam(d3, markup.banner)

\* an exception that leaves a coroutine
Raised == [raised |-> TRUE]

IsRaised(r) == "raised" \in DOMAIN r

\* mutant of ParseProfileOnError: the record is handed back emptied
ParseProfileOnError_Blank(d) ==
    [h \in DOMAIN d |-> IF h = "_date_priority" THEN -1 ELSE NA]

\* mutant of ParseProfileOnError: parse_profile lets the exception through
ParseProfileOnError_Raise(d) == Raised

\* except Exception in parse_profile: return data (440-442)
ParseProfileOnError(d) == d

AllNA == [h \in HeaderSet |-> NA]

\* scrape_player (464-475): the record of parse_profile, or the all-"NA"
\* record when parse_profile raised
ScrapePlayerResult(ret) == IF IsRaised(ret) THEN AllNA ELSE ret

\* the slot of asyncio.gather not filled yet
Pending == [pending |-> TRUE]

\* mutant of Collect: results are taken in the order of completion
Collect_AsCompleted(res, k, r) ==
    [res EXCEPT ![CHOOSE j \in 1..Len(res) :
                    res[j] = Pending /\ \A l \in 1..(j - 1) : res[l] # Pending] = r]

\* asyncio.gather(*tasks) (454): the result of task k is put at position k
Collect(res, k, r) == [res EXCEPT ![k] = r]

\* isinstance(result, dict) (459)
IsDict(r) == ~IsRaised(r)

\* mutant of StripPriority: the record is passed on as it is
StripPriority_Keep(r) == r

\* del result['_date_priority'] (460)
StripPriority(r) == [h \in DOMAIN r \ {"_date_priority"} |-> r[h]]

\* valid_results (457-462)
ValidResults(res) ==
    LET dicts == SelectSeq(res, IsDict)
    IN  [j \in 1..Len(dicts) |-> StripPriority(dicts[j])]

\* mutant of BatchSlice: the slice is one locator short
BatchSlice_Short(urls, i) ==
    SubSeq(urls, i + 1, Min(i + MAX_CONCURRENT - 1, Len(urls)))

\* batch = player_urls[i:i + MAX_CONCURRENT] (498)
BatchSlice(urls, i) == SubSeq(urls, i + 1, Min(i + MAX_CONCURRENT, Len(urls)))

\* mutant of ExitStatus: the run always ends with status 0
ExitStatus_Zero(players) == 0

\* sys.exit(1) when all_players is empty (530-533), else the normal end
ExitStatus(players) == IF players = <<>> THEN 1 ELSE 0

\* mutant of NextYearIdx: an empty season ends the loop
NextYearIdx_Break(k, year_data) == IF year_data = <<>> THEN Len(YEARS) + 1 ELSE k + 1

\* for year in YEARS (525): the next season, whatever the last one gave
NextYearIdx(k, year_data) == k + 1

NewTask(url, y) ==
    [pc |-> "goto", url |-> url, year |-> y, ret |-> Pending,
     outcome |-> "running", page_open |-> TRUE]

(***************************************************************************)
(* main (508-533), scrape_year (483-506), scrape_player_batch (448-462),   *)
(* scrape_player (464-477)                                                 *)
(***************************************************************************)
\* for year in YEARS: year_data = await scrape_year(browser, year) (525-526);
\* scrape_year calls the discovery walker (488)
MainCallYear ==
    /\ main_pc = "loop"
    /\ year_idx <= Len(YEARS)
    /\ main_pc' = "in_year"
    /\ sy_pc' = "discover"
    /\ DiscCall(YEARS[year_idx])
    /\ UNCHANGED <<year_idx, all_players, exit_code, sy_i, all_data, chunks,
                   batch_ctx, tasks, results, year_counts, raced>>
    /\ UNCHANGED notRun

\* scrape_year returns year_data to main, which extends all_players (527)
ReturnToMain(year_data) ==
    /\ all_players' = all_players \o year_data
    /\ year_counts' = Append(year_counts, Len(year_data))
    /\ year_idx' = NextYearIdx(year_idx, year_data)
    /\ main_pc' = "loop"
    /\ sy_pc' = "idle"

\* the walker has returned: "if not player_urls: return []" (490-495)
SyAfterDiscovery ==
    /\ sy_pc = "discover"
    /\ d_pc = "returned"
    /\ d_pc' = "idle"
    /\ IF player_urls = <<>>
       THEN /\ ReturnToMain(<<>>)
            /\ UNCHANGED <<sy_i, all_data, chunks>>
       ELSE /\ sy_pc' = "loop"
            /\ sy_i' = 0
            /\ all_data' = <<>>
            /\ chunks' = <<>>
            /\ UNCHANGED <<main_pc, year_idx, all_players, year_counts>>
    /\ UNCHANGED <<exit_code, batch_ctx, tasks, results, raced>>
    /\ UNCHANGED <<TEST_MODE, site, d_year, context_open, valid_selector,
                   click_count, shown, player_urls, d_log>>
    /\ UNCHANGED notRun

\* one iteration of the batch loop starts (497-501): scrape_player_batch
\* opens a context, a page per locator and creates the tasks (449-454)
SyBatchStart ==
    /\ sy_pc = "loop"
    /\ sy_i < Len(player_urls)
    /\ LET batch == BatchSlice(player_urls, sy_i)
       IN  /\ tasks' = [k \in 1..Len(batch) |-> NewTask(batch[k], YEARS[year_idx])]
           /\ results' = [k \in 1..Len(batch) |-> Pending]
           /\ chunks' = Append(chunks, batch)
    /\ batch_ctx' = TRUE
    /\ sy_pc' = "batch"
    /\ UNCHANGED <<main_pc, year_idx, all_players, exit_code, sy_i, all_data,
                   year_counts>>
    /\ raced' = FALSE
    /\ UNCHANGED discVars
    /\ UNCHANGED notRun

\* task k: parse_profile sets up data (298-303) and awaits page.goto of the
\* profile (306); a failure or timeout is caught at 440 and data is returned
TaskGoto(k) ==
    /\ sy_pc = "batch"
    /\ tasks[k].pc = "goto"
    /\ \E ok \in BOOLEAN :
          tasks' = [tasks EXCEPT ![k] =
                      IF ok THEN [@ EXCEPT !.pc = "parse"]
                      ELSE [@ EXCEPT !.pc = "close", !.outcome = "goto_failed",
                                     !.ret = ParseProfileOnError(
                                               NewData(tasks[k].url, tasks[k].year))]]
    /\ UNCHANGED <<main_pc, year_idx, all_players, exit_code, sy_pc, sy_i,
                   all_data, chunks, batch_ctx, results, year_counts, raced>>
    /\ UNCHANGED discVars
    /\ UNCHANGED notRun

\* task k: the rest of parse_profile's try block (309-438): it returns data,
\* or an exception after the abbreviated timeline is caught at 440
\* (the full timeline page, when there is one, loads)
TaskParse(k) ==
    /\ sy_pc = "batch"
    /\ tasks[k].pc = "parse"
    /\ \E late \in BOOLEAN :
          LET d == ParseProfileBody(NewData(tasks[k].url, tasks[k].year),
                                    tasks[k].url, tasks[k].year,
                                    Markup(tasks[k].url), late)
          IN  tasks' = [tasks EXCEPT ![k] =
                          [@ EXCEPT !.pc = "close",
                                    !.outcome = IF late THEN "late_failed" ELSE "ok",
                                    !.ret = IF late THEN ParseProfileOnError(d) ELSE d]]
    /\ UNCHANGED <<main_pc, year_idx, all_players, exit_code, sy_pc, sy_i,
                   all_data, chunks, batch_ctx, results, year_counts, raced>>
    /\ UNCHANGED discVars
    /\ UNCHANGED notRun

\* mutant of ClosePage: the page is closed on the success path only
ClosePage_OnSuccess(t) == [t EXCEPT !.page_open = (t.outcome # "ok")]

\* finally: await page.close() (476-477)
ClosePage(t) == [t EXCEPT !.page_open = FALSE]

\* task k: scrape_player returns its record and closes its page (468-477)
TaskClose(k) ==
    /\ sy_pc = "batch"
    /\ tasks[k].pc = "close"
    /\ tasks' = [tasks EXCEPT ![k] = [ClosePage(@) EXCEPT !.pc = "done"]]
    /\ results' = Collect(results, k, ScrapePlayerResult(tasks[k].ret))
    /\ UNCHANGED <<main_pc, year_idx, all_players, exit_code, sy_pc, sy_i,
                   all_data, chunks, batch_ctx, year_counts>>
    /\ raced' = (raced \/ \E j \in 1..(k - 1) : results[j] = Pending)
    /\ UNCHANGED discVars
    /\ UNCHANGED notRun

TaskStep == \E k \in 1..MAX_CONCURRENT :
                k \in DOMAIN tasks /\ (TaskGoto(k) \/ TaskParse(k) \/ TaskClose(k))

\* mutant of GatherDone: gather returns with the first task that finishes
GatherDone_First(ts) == \E k \in DOMAIN ts : ts[k].pc = "done"

\* await asyncio.gather(*tasks, ...) (454) returns when every task has
GatherDone(ts) == \A k \in DOMAIN ts : ts[k].pc = "done"

\* gather has every result: the context is closed, the records are
\* filtered and stripped (455-462) and all_data is extended (502)
BatchEnd ==
    /\ sy_pc = "batch"
    /\ GatherDone(tasks)
    /\ batch_ctx' = FALSE
    /\ all_data' = all_data \o ValidResults(results)
    /\ sy_i' = sy_i + MAX_CONCURRENT
    /\ sy_pc' = "loop"
    /\ UNCHANGED <<main_pc, year_idx, all_players, exit_code, chunks, tasks,
                   results, year_counts, raced>>
    /\ UNCHANGED discVars
    /\ UNCHANGED notRun

\* the batch loop is over: return all_data (505-506)
SyReturn ==
    /\ sy_pc = "loop"
    /\ sy_i >= Len(player_urls)
    /\ ReturnToMain(all_data)
    /\ UNCHANGED <<exit_code, sy_i, all_data, chunks, batch_ctx, tasks, results, raced>>
    /\ UNCHANGED discVars
    /\ UNCHANGED notRun

\* the loop over YEARS is over: the browser is closed and the process ends
\* with status 1 without records, else after writing the file (528-549)
MainExit ==
    /\ main_pc = "loop"
    /\ year_idx > Len(YEARS)
    /\ exit_code' = ExitStatus(all_players)
    /\ main_pc' = "exited"
    /\ UNCHANGED <<year_idx, all_players, sy_pc, sy_i, all_data, chunks,
                   batch_ctx, tasks, results, year_counts, raced>>
    /\ UNCHANGED discVars
    /\ UNCHANGED notRun

\* locators of the larger listing: one full chunk and a short one
MaxUrls == 5

\* main has launched the browser (522-524)
Init ==
    /\ TEST_MODE \in BOOLEAN
    /\ site \in [YearSet -> Listings({0, 1, MaxUrls}, {2}, {"twice"}, {FALSE})]
    /\ site[YEARS[2]].total <= 1
    /\ d_pc = "idle"
    /\ d_year = 0
    /\ context_open = FALSE
    /\ valid_selector = 0
    /\ click_count = 0
    /\ shown = 0
    /\ player_urls = <<>>
    /\ d_log = <<>>
    /\ main_pc = "loop"
    /\ year_idx = 1
    /\ all_players = <<>>
    /\ exit_code = -1
    /\ sy_pc = "idle"
    /\ sy_i = 0
    /\ all_data = <<>>
    /\ chunks = <<>>
    /\ batch_ctx = FALSE
    /\ tasks = <<>>
    /\ results = <<>>
    /\ year_counts = <<>>
    /\ raced = FALSE
    /\ IdleTimeline
    /\ year = 0
    /\ data = <<>>
    /\ IdleReplay

Next ==
    \/ MainCallYear
    \/ DiscGoto
    \/ DiscSelect
    \/ DiscClick
    \/ DiscLoopEnd
    \/ DiscExtract
    \/ SyAfterDiscovery
    \/ SyBatchStart
    \/ TaskStep
    \/ BatchEnd
    \/ SyReturn
    \/ MainExit

Spec == Init /\ [][Next]_vars

(***************************************************************************)
(* Claims on the timeline reconciler                                       *)
(***************************************************************************)
SignedSlot(d) == <<d["Signed Date"], d["Signed Team"], d["_date_priority"]>>

\* C1: priority monotonicity. In every step of parse_profile, through every
\* fragment of every page of both passes, _date_priority never decreases;
\* once a commitment fragment with a valid date owns Signed Date (the marker
\* is 100) no signing fragment processed later changes it; and when a
\* commitment and a signing fragment with valid dates have both been
\* processed, in either order, the resolved kind is commitment.
C1_PriorityMonotone ==
    [][ /\ data'["_date_priority"] >= data["_date_priority"]
        /\ (data["_date_priority"] = 100 /\ SignedSlot(data') # SignedSlot(data))
              => \A f \in PageFragments : ~(Kind(f) = "signing" /\ TlItemOn(f))
        /\ ({"commitment", "signing"} \subseteq seen'
                  => data'["_date_priority"] = 100) ]_vars

\* C1 witness: the full pass has ended after a commitment and a signing
\* fragment with valid dates were processed
C1_Witness ==
    /\ pc = "done"
    /\ call = 2
    /\ {"commitment", "signing"} \subseteq seen
    /\ data["_date_priority"] = 100
    /\ data["Signed Date"] = "08/01/2019"

\* what a date text says, whatever the code makes of it
OnOrAfterSept1(t, y) == t # NoDate /\ (t.y > y \/ (t.y = y /\ t.m >= 9))

BeforeSept1(t, y) == t # NoDate /\ (t.y < y \/ (t.y = y /\ t.m <= 8))

\* C2: date-validity gate. A commitment-family fragment dated on or after
\* September 1 of the season year never changes Signed Date, Signed Team or
\* the priority marker, and one dated August 31 or earlier passes the gate.
C2_DateGate ==
    [][ \A f \in PageFragments :
          /\ (item_priority(f) > 0 /\ OnOrAfterSept1(f.date, year) /\ TlItemOn(f))
                => SignedSlot(data') = SignedSlot(data)
          /\ (item_priority(f) > 0 /\ BeforeSept1(f.date, year))
                => PassesGate(f, year) ]_vars

TimelineSlots(d) ==
    <<d["Signed Date"], d["Signed Team"], d["Draft Date"], d["Draft Team"],
      d["_date_priority"]>>

\* C8: reconciliation idempotence. Once parse_timeline has processed a
\* sequence of fragments, processing the same sequence again on the
\* resulting state changes none of Signed Date, Signed Team, Draft Date,
\* Draft Team and the priority marker, at any point of the second pass.
C8_Idempotent ==
    rp_pass \in {2, 3} => TimelineSlots(data) = TimelineSlots(snap)

\* C8 witness: the second pass has ended over two fragments that resolved a
\* commitment date and a draft record
C8_Witness ==
    /\ rp_pass = 3
    /\ Len(frags) = 2
    /\ data["_date_priority"] = 100
    /\ data["Signed Team"] = "Arkansas"
    /\ data["Draft Date"] # NA
    /\ data["Draft Team"] # NA

(***************************************************************************)
(* Claims on discovery                                                     *)
(***************************************************************************)
Range(q) == {q[j] : j \in 1..Len(q)}

Distinct(q) == \A a, b \in 1..Len(q) : a # b => q[a] # q[b]

FirstIdx(x, q) == CHOOSE j \in 1..Len(q) : q[j] = x /\ \A k \in 1..(j - 1) : q[k] # x

\* q lists elements of raw in the order of their first occurrence in raw
FirstSeenOrder(q, raw) ==
    /\ Range(q) \subseteq Range(raw)
    /\ \A a, b \in 1..Len(q) : a < b => FirstIdx(q[a], raw) < FirstIdx(q[b], raw)

\* the normalised profile locators of the anchors found on the loaded page
RawLocators == CollectUrls(PlayerLinks(PageAnchors(site[d_year].shape, shown)))

DiscoveredOk == d_pc = "returned" /\ d_log[Len(d_log)].how = "ok"

\* C7 as stated: the returned list holds each distinct normalised locator
\* exactly once, in the order of its first occurrence.
C7_DedupAll ==
    DiscoveredOk =>
        /\ Distinct(player_urls)
        /\ Range(player_urls) = Range(RawLocators)
        /\ FirstSeenOrder(player_urls, RawLocators)

\* C7 amended: the returned list holds no locator twice and lists locators
\* found on the page in the order of their first occurrence; it holds every
\* distinct locator, except that in TEST_MODE with more than 50 distinct
\* locators it holds the 50 seen first.
C7_DedupUpToLimit ==
    DiscoveredOk =>
        /\ Distinct(player_urls)
        /\ FirstSeenOrder(player_urls, RawLocators)
        /\ IF TEST_MODE /\ Cardinality(Range(RawLocators)) > TestLimit
           THEN /\ Len(player_urls) = TestLimit
                /\ \A x \in Range(RawLocators) \ Range(player_urls) :
                      \A y \in Range(player_urls) :
                          FirstIdx(y, RawLocators) < FirstIdx(x, RawLocators)
           ELSE Range(player_urls) = Range(RawLocators)

\* C7 witness: a page whose anchors repeat locators was extracted, once cut
\* to the limit and once in full
C7_Witness ==
    /\ DiscoveredOk
    /\ Len(RawLocators) > Cardinality(Range(RawLocators))
    /\ TEST_MODE
    /\ Len(player_urls) = TestLimit
    /\ Cardinality(Range(RawLocators)) > TestLimit


(***************************************************************************)
(* Claims on the batch scheduler and the run                               *)
(***************************************************************************)
CeilDiv(n, w) == (n + w - 1) \div w

\* scrape_year is in its batch loop or about to return all_data
InBatchLoop == sy_pc \in {"loop", "batch"}

AboutToReturn == sy_pc = "loop" /\ sy_i >= Len(player_urls)

\* the record parse_profile gives for a locator when nothing fails
Expected(url, y) == ParseProfileBody(NewData(url, y), url, y, Markup(url), FALSE)

\* C3: for a non-empty locator list of length n and width W = MAX_CONCURRENT,
\* scrape_year processes contiguous chunks of size W, the last one possibly
\* shorter, ceil(n/W) of them in all, and returns exactly n records,
\* whichever extractions fail.
C3_Chunking ==
    InBatchLoop =>
        LET n == Len(player_urls)
        IN  /\ Len(chunks) <= CeilDiv(n, MAX_CONCURRENT)
            /\ \A c \in 1..Len(chunks) :
                  /\ chunks[c] = SubSeq(player_urls, (c - 1) * MAX_CONCURRENT + 1,
                                        Min(c * MAX_CONCURRENT, n))
                  /\ Len(chunks[c]) >= 1
                  /\ c < CeilDiv(n, MAX_CONCURRENT) => Len(chunks[c]) = MAX_CONCURRENT
            /\ AboutToReturn => /\ Len(chunks) = CeilDiv(n, MAX_CONCURRENT)
                                /\ Len(all_data) = n

\* scrape_year is about to return after a full chunk and a short one, with
\* an extraction that failed at its navigation
C3_Witness ==
    /\ AboutToReturn
    /\ Len(player_urls) > MAX_CONCURRENT
    /\ Len(chunks) = 2
    /\ Len(chunks[2]) < MAX_CONCURRENT
    /\ Len(all_data) = Len(player_urls)
    /\ \E i \in 1..Len(all_data) : all_data[i]["Player Name"] = NA

\* C4: the record at position i of the list scrape_year builds is the one
\* produced by the task started for the i-th discovered locator, whatever
\* the order in which the tasks of a chunk finish.
C4_DiscoveryOrder ==
    InBatchLoop =>
        /\ \A i \in 1..Len(all_data) : all_data[i]["Profile URL"] = player_urls[i]
        /\ (sy_pc = "loop" /\ sy_i > 0) =>
              \A k \in DOMAIN tasks :
                  /\ tasks[k].url = player_urls[sy_i - MAX_CONCURRENT + k]
                  /\ all_data[sy_i - MAX_CONCURRENT + k]
                        = StripPriority(ScrapePlayerResult(tasks[k].ret))

\* a chunk whose tasks did not finish in the order they were started has been
\* added to all_data
C4_Witness ==
    /\ sy_pc = "loop"
    /\ sy_i > 0
    /\ raced
    /\ Len(all_data) >= MAX_CONCURRENT

\* a task of the running chunk has returned
Done(k) == sy_pc = "batch" /\ k \in DOMAIN tasks /\ tasks[k].pc = "done"

Failed(k) == tasks[k].outcome \in {"goto_failed", "late_failed"}

\* every finished task has its own record, and a task nothing failed in has
\* the record of its profile, whatever happened to the others
SiblingsUnaffected ==
    \A k \in 1..MAX_CONCURRENT :
        Done(k) => /\ results[k] # Pending
                   /\ IsDict(results[k])
                   /\ tasks[k].outcome = "ok" =>
                         results[k] = Expected(tasks[k].url, tasks[k].year)

\* C5 as stated: the siblings of a failing extraction return their own
\* records, and the failing locator yields the all-"NA" record.
C5_IsolationAllNA ==
    /\ SiblingsUnaffected
    /\ \A k \in 1..MAX_CONCURRENT : (Done(k) /\ Failed(k)) => results[k] = AllNA

\* C5: the siblings of a failing extraction return their own records, and
\* the failing locator yields a record that keeps its Profile URL,
\* Recruiting Year and Data Source; when the navigation failed every
\* extracted field of it is "NA".
C5_Isolation ==
    /\ SiblingsUnaffected
    /\ \A k \in 1..MAX_CONCURRENT :
          (Done(k) /\ Failed(k)) =>
              /\ results[k]["Profile URL"] = tasks[k].url
              /\ results[k]["Recruiting Year"] = ToString(tasks[k].year)
              /\ results[k]["Data Source"] # NA
              /\ tasks[k].outcome = "goto_failed" =>
                    results[k] = NewData(tasks[k].url, tasks[k].year)

\* in one chunk a task whose navigation failed and a task nothing failed in
\* have both returned
C5_Witness ==
    \E j, k \in 1..MAX_CONCURRENT :
        /\ Done(j) /\ tasks[j].outcome = "goto_failed"
        /\ Done(k) /\ tasks[k].outcome = "ok"
        /\ results[k]["Player Name"] # NA

\* C6: the process ends with a non-zero status when no season produced a
\* record, and with status zero when some season produced one.
C6_ExitContract ==
    main_pc = "exited" =>
        /\ (\A j \in 1..Len(year_counts) : year_counts[j] = 0) => exit_code # 0
        /\ (\E j \in 1..Len(year_counts) : year_counts[j] > 0) => exit_code = 0

\* the run has ended with status 1 though a listing had players
C6_Witness ==
    /\ main_pc = "exited"
    /\ exit_code = 1
    /\ Len(year_counts) = Len(YEARS)
    /\ site[YEARS[1]].total > 0

Complete(rec) ==
    /\ HeaderSet \subseteq DOMAIN rec
    /\ \A h \in HeaderSet : rec[h] \in STRING

\* C9: every record scrape_year returns, whether its extraction succeeded,
\* failed part-way or failed completely, has a value for every field of
\* CSV_HEADERS, an extracted one or "NA".
C9_RecordComplete ==
    /\ \A i \in 1..Len(all_data) : Complete(all_data[i])
    /\ \A i \in 1..Len(all_players) : Complete(all_players[i])

\* main holds a record of an extraction that failed at its navigation, one of
\* an extraction that failed part-way and one of an extraction that succeeded
C9_Witness ==
    \E a, b, c \in 1..Len(all_players) :
        /\ all_players[a]["247 ID"] = NA
        /\ all_players[b]["Player Name"] # NA /\ all_players[b]["Draft Date"] = NA
        /\ all_players[c]["Player Name"] # NA /\ all_players[c]["Draft Date"] # NA

DiscoveryFailed(e) == e.how \in {"load_failed", "no_marker"}

\* C10: when the ranking page cannot be loaded or no list-item marker
\* matches, the walker returns an empty list, scrape_year returns an empty
\* result for that season, and main goes on with the remaining seasons.
C10_SeasonScoped ==
    /\ \A j \in 1..Len(d_log) :
          /\ d_log[j].year = YEARS[j]
          /\ DiscoveryFailed(d_log[j]) =>
                /\ d_log[j].n = 0
                /\ j <= Len(year_counts) => year_counts[j] = 0
    /\ main_pc = "exited" => /\ Len(d_log) = Len(YEARS)
                             /\ Len(year_counts) = Len(YEARS)

\* the first season's ranking page did not load and the run ended with the
\* records of the second season
C10_Witness ==
    /\ main_pc = "exited"
    /\ d_log[1].how = "load_failed"
    /\ year_counts[1] = 0
    /\ year_counts[2] > 0


\* data as it stands when the exception of a part-way failure occurs: the
\* fields of the page and the abbreviated timeline are in
PopulatedBefore(url, y) ==
    ParseItems(ExtractFields(NewData(url, y), url, y, Markup(url)),
               Markup(url).abbrev, y)

\* C11: when an exception occurs in the processing of a profile after some
\* fields have been populated, the record emitted for it keeps every field
\* value populated before the exception and is not the all-"NA" record.
C11_PartialSurvives ==
    \A k \in 1..MAX_CONCURRENT :
        (Done(k) /\ tasks[k].outcome = "late_failed") =>
            LET before == PopulatedBefore(tasks[k].url, tasks[k].year)
            IN  /\ \A h \in HeaderSet : before[h] # NA => results[k][h] = before[h]
                /\ results[k] # AllNA

\* a task that failed after the name, the position and the signing of the
\* abbreviated timeline were in has returned its record
C11_Witness ==
    \E k \in 1..MAX_CONCURRENT :
        /\ Done(k)
        /\ tasks[k].outcome = "late_failed"
        /\ results[k]["Player Name"] # NA
        /\ results[k]["Position"] = "QB"
        /\ results[k]["Signed Date"] = "08/31/2019"
        /\ results[k]["Draft Date"] = NA


(***************************************************************************)
(* Further claims on the timeline reconciler                               *)
(***************************************************************************)
\* how many items of frags have been processed at least once
Processed == IF rp_pass = 1 THEN idx - 1 ELSE Len(frags)

\* item i is of kind K and its date passes the check of line 255
ValidOfKind(i, K) == Kind(frags[i]) = K /\ PassesGate(frags[i], year)

FirstValid(K) ==
    CHOOSE i \in 1..Processed :
        ValidOfKind(i, K) /\ \A j \in 1..(i - 1) : ~ValidOfKind(j, K)

KindPriority(K) ==
    IF K = "commitment" THEN 100 ELSE IF K = "signing" THEN 1 ELSE 0

\* C12: while the resolved Signed Date belongs to a kind, it is the date of
\* the first fragment of that kind with a valid date that was processed: a
\* later fragment of the same kind does not replace it, whatever its date.
C12_FirstOfKindOwns ==
    \A K \in {"commitment", "signing", "enrollment"} :
        (/\ data["_date_priority"] = KindPriority(K)
         /\ \E i \in 1..Processed : ValidOfKind(i, K))
        => data["Signed Date"] = DateStr(found_date(frags[FirstValid(K)]))

\* two commitments, the second with the more recent date, have been
\* processed in both passes and the date of the first is the resolved one
C12_Witness ==
    /\ rp_pass = 3
    /\ Len(frags) = 2
    /\ ValidOfKind(1, "commitment") /\ ValidOfKind(2, "commitment")
    /\ frags[1].date.d = 1
    /\ frags[2].date.d = 31
    /\ data["Signed Date"] = "08/01/2019"


\* C13: whenever a fragment overwrites the resolved Signed Date and the
\* priority marker, the resolved Signed Team is the destination of the same
\* fragment ("NA" when the fragment names none).
C13_DateAndTeamTogether ==
    [][ (pc = "tl_items" /\ data'["_date_priority"] # data["_date_priority"])
          => \A f \in PageFragments :
                TlItemOn(f) => data'["Signed Team"] = clean_text(f.team) ]_vars


DraftSlot(d) == <<d["Draft Date"], d["Draft Team"]>>

\* C14: processing a draft-related fragment never changes Signed Date,
\* Signed Team or the priority marker, and processing a commitment-family
\* fragment never changes Draft Date or Draft Team.
C14_DraftSeparate ==
    [][ (pc = "tl_items" /\ data' # data)
          => \A f \in PageFragments :
                TlItemOn(f) =>
                    /\ f.draft => SignedSlot(data') = SignedSlot(data)
                    /\ Kind(f) # "none" => DraftSlot(data') = DraftSlot(data) ]_vars


\* C15: once Draft Date (respectively Draft Team) holds a value other than
\* "NA", no later step changes it: not a fragment of the same page, not one
\* of a later page, not one of the full-timeline pass.
C15_DraftFilledOnce ==
    [][ /\ data["Draft Date"] # NA => data'["Draft Date"] = data["Draft Date"]
        /\ data["Draft Team"] # NA => data'["Draft Team"] = data["Draft Team"] ]_vars

\* in the full-timeline pass, past its first page, the draft record holds the
\* date of one draft item and the team of another, dated differently
C15_Witness ==
    /\ call = 2
    /\ page_count >= 1
    /\ data["Draft Date"] = "09/01/2019"
    /\ data["Draft Team"] = "Green Bay Packers"


\* the date text is there and one of the formats of normalize_date parses it
IsCalendarDate(t) ==
    t # NoDate /\ (Strptime(t, "mdY") \/ Strptime(t, "bdY") \/ Strptime(t, "BdY"))

\* C16: a commitment-family fragment whose date text is missing or cannot be
\* parsed as a calendar date never updates Signed Date, Signed Team or the
\* priority marker.
C16_UnparsedDateIgnored ==
    [][ (pc = "tl_items" /\ SignedSlot(data') # SignedSlot(data))
          => \A f \in PageFragments : TlItemOn(f) => IsCalendarDate(f.date) ]_vars


\* the highest kind of the lattice commitment > signing > enrollment in S
Highest(S) ==
    IF "commitment" \in S THEN "commitment"
    ELSE IF "signing" \in S THEN "signing"
    ELSE "enrollment"

\* C17: after any sequence of fragments from the empty state, the resolved
\* Signed Date belongs to the highest kind of commitment > signing >
\* enrollment of which a fragment with a valid date was processed; an
\* enrollment fragment with a valid date owns it when it is the only kind.
C17_HighestKindOwns ==
    seen # {} => /\ data["_date_priority"] = KindPriority(Highest(seen))
                 /\ data["Signed Date"] # NA


\* C18: when a step of parse_timeline raises, the except clause keeps Signed
\* Date, Signed Team, Draft Date, Draft Team and the priority marker as they
\* were resolved before the error, and parse_timeline returns to
\* parse_profile, which goes on after the call.
C18_FailureKeepsState ==
    [][ /\ (pc' = "tl_except" \/ pc = "tl_except")
              => TimelineSlots(data') = TimelineSlots(data)
        /\ pc = "tl_except" => pc' = (IF call = 1 THEN "see_all" ELSE "fallback") ]_vars

\* on a later page of the full-timeline pass a step has raised after a
\* commitment and a draft record were resolved
C18_Witness ==
    /\ pc = "tl_except"
    /\ call = 2
    /\ page_count >= 1
    /\ data["_date_priority"] = 100
    /\ data["Signed Date"] # NA
    /\ data["Draft Date"] # NA


\* C19: parse_timeline reads the pages of the full history one after the
\* other, the k-th read following the (k-1)-th click of the next control, and
\* a commitment with a valid date sets the result on whichever page it is
\* found, the last one included; the traversal reads at most max_pages pages,
\* page_count growing with every page read after the first; and a page
\* without the full-timeline list is the only page read.
C19_FullTraversal ==
    [][ /\ pages_read' <= max_pages
        /\ pc' = "tl_items" => pages_read' = page_count' + 1
        /\ (pc = "tl_items" /\ pc' = "tl_read")
              => /\ is_full_timeline
                 /\ page_count' = page_count + 1
                 /\ page_count' < max_pages
        /\ (pc = "tl_items" /\ "commitment" \in seen')
              => data'["_date_priority"] = 100 ]_vars

\* the tenth page of the full timeline has been read and a commitment found
\* there, after a signing on an earlier page, owns the result
C19_Witness ==
    /\ call = 2
    /\ pages_read = max_pages
    /\ pc = "tl_items"
    /\ {"commitment", "signing"} \subseteq seen
    /\ data["_date_priority"] = 100


(***************************************************************************)
(* Further claims on the discovery walker                                  *)
(***************************************************************************)
\* C20: the click loop activates the load-more control at most 500 times, at
\* most once in TEST_MODE; every activation counts, whether or not it added
\* items; the loop ends when the control is not there or an activation
\* raises, and whichever way it ends the items loaded so far are extracted
\* and their locators returned.
C20_ClickLoopBounded ==
    [][ /\ click_count' <= (IF TEST_MODE THEN 1 ELSE 500)
        /\ (d_pc = "loop" /\ d_pc' = "loop") => click_count' = click_count + 1
        /\ (d_pc = "loop" /\ ~LoadMoreVisible(site[d_year], shown))
              => d_pc' = "extract"
        /\ (d_pc = "loop" /\ d_pc' # "loop")
              => d_pc' = "extract" /\ shown' = shown
        /\ d_pc = "extract"
              => /\ d_pc' = "returned"
                 /\ d_log'[Len(d_log')].how = "ok"
                 /\ player_urls' = ExtractUrls(PageAnchors(site[d_year].shape, shown),
                                               TEST_MODE) ]_vars

\* the control never went away: 500 activations, none past the first ones
\* adding an item, and the loop has ended for the extraction
C20_Witness ==
    /\ d_pc = "extract"
    /\ click_count = 500
    /\ site[d_year].stalls
    /\ shown = site[d_year].total
    /\ shown > 0


(***************************************************************************)
(* Further claims on the batch scheduler                                   *)
(***************************************************************************)
\* the profile extractions in progress: the tasks created and not finished
InProgress(ts) == {k \in DOMAIN ts : ts[k].pc # "done"}

\* C21: no task of a chunk starts before every task of the chunk before it
\* has finished, and at every moment at most MAX_CONCURRENT profile
\* extractions are in progress.
C21_NoCrossChunk ==
    [][ /\ Len(chunks') > Len(chunks) => InProgress(tasks) = {}
        /\ Len(chunks') < Len(chunks) => InProgress(tasks) = {}
        /\ Cardinality(InProgress(tasks')) <= MAX_CONCURRENT ]_vars

\* the second chunk of a season is running after a full first chunk whose
\* four records are in
C21_Witness ==
    /\ sy_pc = "batch"
    /\ Len(chunks) = 2
    /\ Len(chunks[1]) = MAX_CONCURRENT
    /\ Len(all_data) = MAX_CONCURRENT
    /\ InProgress(tasks) # {}


\* the tasks that hold an open page
OpenPages(ts) == {k \in DOMAIN ts : ts[k].page_open}

\* C22: the session of a chunk is disposed after every task of the chunk has
\* finished and closed its page, whether its extraction succeeded or failed,
\* and before the session of the next chunk is opened; no task runs and no
\* page is open without the session of its chunk.
C22_SessionLifetime ==
    [][ /\ (batch_ctx /\ ~batch_ctx')
              => InProgress(tasks) = {} /\ OpenPages(tasks) = {}
        /\ Len(chunks') # Len(chunks) => ~batch_ctx
        /\ (InProgress(tasks') # {} \/ OpenPages(tasks') # {}) => batch_ctx' ]_vars

\* the session of the second chunk is open, that of the first having been
\* disposed after a chunk in which an extraction failed
C22_Witness ==
    /\ batch_ctx
    /\ Len(chunks) = 2
    /\ OpenPages(tasks) # {}
    /\ \E i \in 1..Len(all_data) : all_data[i]["247 ID"] = NA


\* C23: no record of the list scrape_player_batch returns, and so none that
\* main holds for the record sink, has the _date_priority field, whether its
\* extraction succeeded or failed.
C23_MarkerStripped ==
    /\ \A i \in 1..Len(all_data) : "_date_priority" \notin DOMAIN all_data[i]
    /\ \A i \in 1..Len(all_players) : "_date_priority" \notin DOMAIN all_players[i]

\* a chunk has returned the record of an extraction that resolved a
\* commitment, that of one that failed at its navigation and that of one that
\* failed part-way after a signing was resolved
C23_Witness ==
    /\ sy_pc = "loop"
    /\ \E a, b, c \in 1..Len(all_data) :
          /\ all_data[a]["Signed Date"] = "08/01/2019"
          /\ all_data[b]["247 ID"] = NA
          /\ all_data[c]["Signed Date"] = "08/31/2019"

\* C24: whichever way click_load_more_until_complete returns, after a failed
\* load, without a list marker or after the pagination, its browsing context
\* is closed when it returns, and none is open while the chunks of the season
\* are processed.
C24_DiscoveryReleases ==
    /\ d_pc = "returned" => ~context_open
    /\ sy_pc \in {"loop", "batch"} => ~context_open
    /\ batch_ctx => ~context_open

\* the first chunk of the second season is running, the discovery of the
\* first season having returned without a list marker
C24_Witness ==
    /\ sy_pc = "batch"
    /\ Len(chunks) = 1
    /\ ~context_open
    /\ Len(d_log) = 2
    /\ d_log[1].how = "no_marker"
    /\ d_log[2].how = "ok"

====
